---- MODULE Spec2Model ----
(***************************************************************************)
(* A model of cargo-geiger's source-file resolution (rs_file.rs), of the   *)
(* forbid-only table line (scan/forbid/table.rs) and of the status         *)
(* colouring (format/print_config.rs).                                     *)
(*                                                                         *)
(* Four specifications share the module, each over its own variables:      *)
(*   SpecParse   parse_rustc_dep_info on dependency-info text              *)
(*   SpecScan    into_rs_code_file, the entry-point scan and the           *)
(*               package line of the forbid-only table                     *)
(*   SpecResolve resolve_rs_file_deps: clean, build with the intercepting  *)
(*               executor, reclaim and drain of the context, walk          *)
(*   SpecTable   scan_forbid_to_table: the key and one line per line of    *)
(*               the dependency tree                                       *)
(* Strings are sequences of one-character strings.                         *)
(***************************************************************************)
EXTENDS Naturals, Sequences, FiniteSets

VARIABLES
    \* ---- SpecParse
    dep_names,      \* the original file names the compiler wrote out
    with_phony,     \* whether the text also holds a "name:" line with no ": "
    dep_info,       \* the text of the dependency-info file
    parsed,         \* what parse_rustc_dep_info returned
    ppc,            \* "start" | "written" | "parsed"
    \* ---- SpecScan
    pkg_targets,    \* the package's source files: path -> kind and content
    rs_files,       \* path -> RsFile, the classified files
    pkg_metrics,    \* geiger_ctx.package_id_to_metrics.get(&package_id)
    tree_line,      \* the package line pushed to scan_output_lines
    spc,            \* "targets" | "classified" | "scanned" | "printed"
    \* ---- SpecResolve
    rpc,            \* where resolve_rs_file_deps is
    result,         \* what resolve_rs_file_deps returned
    ctx,            \* the CustomExecutorInnerContext behind the mutex
    mutex,          \* [holder, poisoned]
    pending,        \* compiler invocations the build has not started yet
    wpc,            \* worker -> where it is in Executor::exec
    job,            \* worker -> the invocation it runs (0: none)
    guard,          \* worker -> the context as read through its lock guard
    build_failed,   \* an invocation of the build failed
    drained,        \* (rs_files, out_dir_args) taken out of the context
    to_walk,        \* output directories not walked yet
    path_buf_hash_set,
    ran,            \* history: the invocations that recorded their arguments
    drains,         \* history: how often the context was drained
    build_returned, \* history: ops::compile_with_exec has returned
    failed,         \* history: the step that failed, and on which path
    units,          \* the compiler invocations of this build
    listed,         \* history: the canonical paths the walked .d files list
    listed_count,   \* history: how many dependencies these files list
    \* ---- SpecTable
    root_deps,      \* the root package's dependencies: kind -> how many
    tree_lines,     \* what walk_dependency_tree returned
    next_line,      \* the tree line the loop of scan_forbid_to_table is at
    scan_output_lines,
    printed,        \* the lines written to the standard output
    torn,           \* a part of one more line was written before a panic
    table_result,   \* what scan_forbid_to_table returned
    tpc             \* where scan_forbid_to_table is

parseVars == <<dep_names, with_phony, dep_info, parsed, ppc>>
scanVars == <<pkg_targets, rs_files, pkg_metrics, tree_line, spc>>
workerVars == <<ctx, mutex, pending, wpc, job, guard, build_failed, ran>>
callVars == <<rpc, result, drained, to_walk, path_buf_hash_set, drains,
              build_returned, failed>>
buildVars == <<units, listed, listed_count>>
resolveVars == <<workerVars, callVars, buildVars>>
tableVars == <<root_deps, tree_lines, next_line, scan_output_lines, printed,
               torn, table_result, tpc>>

vars == <<parseVars, scanVars, resolveVars, tableVars>>

(***************************************************************************)
(* Bounds of the model.                                                    *)
(***************************************************************************)
MaxNameLen == 4
MaxDeps == 2
MaxFiles == 2
NumWorkers == 2
MaxUnits == 3
MaxEntries == 2
MaxMembers == 2

(***************************************************************************)
(* Strings.                                                                *)
(***************************************************************************)
Space == " "
Backslash == "\\"
Newline == "\n"

\* The characters with the Unicode property White_Space; those a string
\* of this module cannot hold are written by their code point
White_Space ==
    {" ", "\t", "\n", "\f", "\r", "U+000B", "U+0085", "U+00A0", "U+1680",
     "U+2000", "U+2001", "U+2002", "U+2003", "U+2004", "U+2005", "U+2006",
     "U+2007", "U+2008", "U+2009", "U+200A", "U+2028", "U+2029", "U+202F",
     "U+205F", "U+3000"}

\* char::is_whitespace
is_whitespace(c) == c \in White_Space

\* str::ends_with(char)
ends_with(s, c) == Len(s) > 0 /\ s[Len(s)] = c

\* str::find(pattern): the 1-based index of the first match, 0 for None
find(s, pat) ==
    LET hits == {i \in 1..(Len(s) + 1 - Len(pat)) :
                    SubSeq(s, i, i + Len(pat) - 1) = pat}
    IN  IF hits = {} THEN 0
        ELSE CHOOSE i \in hits : \A j \in hits : i <= j

\* The "\r" of a line ending "\r\n" belongs to the ending
strip_cr(l) == IF ends_with(l, "\r") THEN SubSeq(l, 1, Len(l) - 1) ELSE l

\* str::lines(): split at "\n" or "\r\n", a final empty line is not a
\* line; a "\r" that ends the text without a "\n" stays
RECURSIVE lines(_)
lines(s) ==
    IF s = <<>> THEN <<>>
    ELSE LET n == find(s, <<Newline>>)
         IN  IF n = 0 THEN <<s>>
             ELSE <<strip_cr(SubSeq(s, 1, n - 1))>>
                      \o lines(SubSeq(s, n + 1, Len(s)))

\* str::split_whitespace(): the non-empty runs of non-whitespace, in order
RECURSIVE split_whitespace(_)
split_whitespace(s) ==
    IF s = <<>> THEN <<>>
    ELSE IF is_whitespace(Head(s)) THEN split_whitespace(Tail(s))
    ELSE LET ws == {i \in 1..Len(s) : is_whitespace(s[i])}
             n  == IF ws = {} THEN Len(s) + 1
                   ELSE CHOOSE i \in ws : \A j \in ws : i <= j
         IN  <<SubSeq(s, 1, n - 1)>> \o split_whitespace(SubSeq(s, n, Len(s)))

(***************************************************************************)
(* parse_rustc_dep_info (rs_file.rs 226-255).                              *)
(***************************************************************************)
\* A plausible slip: the continuation appended without the space
RECURSIVE continue_file_no_space(_, _)
continue_file_no_space(file, deps) ==
    IF ends_with(file, Backslash)
    THEN IF deps = <<>>
         THEN [panic |-> TRUE, file |-> <<>>, deps |-> <<>>]
         ELSE continue_file_no_space(
                  SubSeq(file, 1, Len(file) - 1) \o Head(deps), Tail(deps))
    ELSE [panic |-> FALSE, file |-> file, deps |-> deps]

\* The inner loop: while file.ends_with('\\') { pop; push(' ');
\* push_str(deps.next().expect(..)) }.  expect on None panics.
RECURSIVE continue_file(_, _)
continue_file(file, deps) ==
    IF ends_with(file, Backslash)
    THEN IF deps = <<>>
         THEN [panic |-> TRUE, file |-> <<>>, deps |-> <<>>]
         ELSE continue_file(
                  SubSeq(file, 1, Len(file) - 1) \o <<Space>> \o Head(deps),
                  Tail(deps))
    ELSE [panic |-> FALSE, file |-> file, deps |-> deps]

\* The outer loop: while let Some(s) = deps.next() { ..; ret.push(file) }
RECURSIVE parse_deps(_)
parse_deps(deps) ==
    IF deps = <<>> THEN [panic |-> FALSE, ret |-> <<>>]
    ELSE LET f == continue_file(Head(deps), Tail(deps))
         IN  IF f.panic THEN [panic |-> TRUE, ret |-> <<>>]
             ELSE LET rest == parse_deps(f.deps)
                  IN  IF rest.panic THEN rest
                      ELSE [panic |-> FALSE, ret |-> <<f.file>> \o rest.ret]

\* One line that holds ": ": (target, deps)
parse_line(line, pos) ==
    LET target == SubSeq(line, 1, pos - 1)
        d      == parse_deps(split_whitespace(SubSeq(line, pos + 2, Len(line))))
    IN  [panic |-> d.panic, entry |-> <<target, d.ret>>]

\* The lines with no ": " are dropped (filter_map); the others are parsed in
\* order and collected.  kind is "Ok" or "Panic".
RECURSIVE parse_lines(_)
parse_lines(ls) ==
    IF ls = <<>> THEN [kind |-> "Ok", deps |-> <<>>]
    ELSE LET pos == find(Head(ls), <<":", Space>>)
         IN  IF pos = 0 THEN parse_lines(Tail(ls))
             ELSE LET p == parse_line(Head(ls), pos)
                  IN  IF p.panic THEN [kind |-> "Panic", deps |-> <<>>]
                      ELSE LET rest == parse_lines(Tail(ls))
                           IN  IF rest.kind = "Panic" THEN rest
                               ELSE [kind |-> "Ok",
                                     deps |-> <<p.entry>> \o rest.deps]

parse_rustc_dep_info(contents) == parse_lines(lines(contents))

(***************************************************************************)
(* The dependency-info text the compiler writes for a list of file names:  *)
(* "target: dep dep ..." with every space of a name written as "\ ".       *)
(***************************************************************************)
RECURSIVE escape_spaces(_)
escape_spaces(name) ==
    IF name = <<>> THEN <<>>
    ELSE (IF Head(name) = Space THEN <<Backslash, Space>> ELSE <<Head(name)>>)
         \o escape_spaces(Tail(name))

RECURSIVE join_deps(_)
join_deps(names) ==
    IF names = <<>> THEN <<>>
    ELSE <<Space>> \o escape_spaces(Head(names)) \o join_deps(Tail(names))

DepTarget == <<"o">>

\* "o:" then " dep" for each name; a line "a:" (no ": ") follows when phony
write_dep_info(names, phony) ==
    DepTarget \o <<":">> \o
    (IF names = <<>> THEN <<Space>> ELSE join_deps(names)) \o <<Newline>> \o
    (IF phony THEN <<"a", ":", Newline>> ELSE <<>>)

NameChars == {"a", Space}

\* File names with any spaces embedded: neither first nor last
FileNames ==
    UNION {{n \in [1..k -> NameChars] : n[1] # Space /\ n[k] # Space}
              : k \in 1..MaxNameLen}

NameLists == UNION {[1..k -> FileNames] : k \in 0..MaxDeps}

NoResult == [kind |-> "None"]

(***************************************************************************)
(* Classification of a target's source file (rs_file.rs 25-37, 88-98).     *)
(***************************************************************************)
TargetKinds ==
    {"Lib", "Bin", "Test", "Bench", "ExampleLib", "ExampleBin", "CustomBuild"}

\* A plausible slip: a bench target taken for a binary root
into_rs_code_file_bench_as_bin(kind, path) ==
    CASE kind = "Lib"         -> [tag |-> "LibRoot", path |-> path]
      [] kind = "Bin"         -> [tag |-> "BinRoot", path |-> path]
      [] kind = "Test"        -> [tag |-> "Other", path |-> path]
      [] kind = "Bench"       -> [tag |-> "BinRoot", path |-> path]
      [] kind = "ExampleLib"  -> [tag |-> "Other", path |-> path]
      [] kind = "ExampleBin"  -> [tag |-> "Other", path |-> path]
      [] kind = "CustomBuild" -> [tag |-> "CustomBuildRoot", path |-> path]

into_rs_code_file(kind, path) ==
    CASE kind = "Lib"         -> [tag |-> "LibRoot", path |-> path]
      [] kind = "Bin"         -> [tag |-> "BinRoot", path |-> path]
      [] kind = "Test"        -> [tag |-> "Other", path |-> path]
      [] kind = "Bench"       -> [tag |-> "Other", path |-> path]
      [] kind = "ExampleLib"  -> [tag |-> "Other", path |-> path]
      [] kind = "ExampleBin"  -> [tag |-> "Other", path |-> path]
      [] kind = "CustomBuild" -> [tag |-> "CustomBuildRoot", path |-> path]

(***************************************************************************)
(* The scan of a package in ScanMode::EntryPointsOnly (find_unsafe, called *)
(* at table.rs 108-113): the files tagged LibRoot, BinRoot or              *)
(* CustomBuildRoot are scanned, and each file whose scan succeeds gets a   *)
(* RsFileMetricsWrapper (rs_file.rs 39-49) in the package's                *)
(* rs_path_to_metrics.  The package's entry exists once a file of it has   *)
(* metrics, or from the start when entry_first.                            *)
(***************************************************************************)
is_entry_point(rs_file) == rs_file.tag \in {"LibRoot", "BinRoot", "CustomBuildRoot"}

NoMetrics == [some |-> FALSE]

find_unsafe(targets, files, entry_first) ==
    LET scanned == {p \in DOMAIN files :
                       is_entry_point(files[p]) /\ targets[p].scan_ok}
    IN  IF scanned = {} /\ ~entry_first THEN NoMetrics
        ELSE [some |-> TRUE,
              rs_path_to_metrics |->
                  [p \in scanned |->
                      [metrics |-> [forbids_unsafe |-> targets[p].forbids_unsafe,
                                    has_unsafe |-> targets[p].has_unsafe],
                       is_crate_entry_point |-> TRUE]]]

(***************************************************************************)
(* The package line of the forbid-only table (table.rs 99-136).            *)
(***************************************************************************)
\* A plausible slip: the lock withheld from a package with unsafe counts
handle_package_text_tree_line_counts(package_metrics) ==
    LET package_forbids_unsafe ==
            IF ~package_metrics.some THEN FALSE
            ELSE \A k \in DOMAIN package_metrics.rs_path_to_metrics :
                    /\ package_metrics.rs_path_to_metrics[k].metrics.forbids_unsafe
                    /\ ~package_metrics.rs_path_to_metrics[k].metrics.has_unsafe
    IN  IF package_forbids_unsafe
        THEN [symbol |-> "Lock", color |-> "green", bold |-> FALSE]
        ELSE [symbol |-> "QuestionMark", color |-> "red", bold |-> FALSE]

\* package_forbids_unsafe: None => false, Some => all(forbids_unsafe);
\* then (sym_lock, name.green()) or (sym_qmark, name.red())
handle_package_text_tree_line(package_metrics) ==
    LET package_forbids_unsafe ==
            IF ~package_metrics.some THEN FALSE
            ELSE \A k \in DOMAIN package_metrics.rs_path_to_metrics :
                    package_metrics.rs_path_to_metrics[k].metrics.forbids_unsafe
    IN  IF package_forbids_unsafe
        THEN [symbol |-> "Lock", color |-> "green", bold |-> FALSE]
        ELSE [symbol |-> "QuestionMark", color |-> "red", bold |-> FALSE]

\* colorize (print_config.rs 97-106): the style of a name for each status
colorize(crate_detection_status) ==
    CASE crate_detection_status = "NoneDetectedForbidsUnsafe" ->
             [color |-> "green", bold |-> FALSE]
      [] crate_detection_status = "NoneDetectedAllowsUnsafe" ->
             [color |-> "normal", bold |-> FALSE]
      [] crate_detection_status = "UnsafeDetected" ->
             [color |-> "red", bold |-> TRUE]

\* The verdict a package line shows: the lock is "all entry point .rs files
\* declare #![forbid(unsafe_code)]" (table.rs 72-78), a name styled as
\* colorize styles UnsafeDetected shows detected usage, and the question mark
\* ("this crate may use unsafe code") is the remaining verdict.
verdict_of_line(l) ==
    IF l.symbol = "Lock" THEN "ForbidsUnsafeEverywhere"
    ELSE IF [color |-> l.color, bold |-> l.bold] = colorize("UnsafeDetected")
         THEN "UnsafeDetected"
         ELSE "NoneDetectedButNotForbidden"

TargetFiles ==
    [kind : TargetKinds, forbids_unsafe : BOOLEAN, has_unsafe : BOOLEAN,
     scan_ok : BOOLEAN]

NoLine == [symbol |-> "None", color |-> "normal", bold |-> FALSE]

(***************************************************************************)
(* scan_forbid_to_table (table.rs 16-64): the key, then one line for each  *)
(* line of the dependency tree.  A line of the output is a record: the     *)
(* symbol it starts with, the depth its vines stand for, its text, and for *)
(* a package line the package and the colour of its name.                  *)
(***************************************************************************)
\* The dependency kinds, in the order the tree lists a package's categories
DepKinds == <<"Normal", "Build", "Development", "Target">>
KindSet == {DepKinds[k] : k \in DOMAIN DepKinds}

\* The label of a dependency group: the build and the dev dependencies
\* have one
get_kind_group_name(kind) ==
    CASE kind = "Build"       -> [some |-> TRUE, name |-> "build-dependencies"]
      [] kind = "Development" -> [some |-> TRUE, name |-> "dev-dependencies"]
      [] OTHER                -> [some |-> FALSE, name |-> ""]

\* TextTreeLine::Package { id, tree_vines }
Package(id, tree_vines) ==
    [type |-> "Package", id |-> id, kind |-> "", tree_vines |-> tree_vines]

\* TextTreeLine::ExtraDepsGroup { kind, tree_vines }
ExtraDepsGroup(kind, tree_vines) ==
    [type |-> "ExtraDepsGroup", id |-> 0, kind |-> kind,
     tree_vines |-> tree_vines]

\* The lines of the categories from the k-th on, the members numbered from
\* first_id: the members of the normal category; for another category that
\* is not empty, a group line and then its members when the category has a
\* recognized label, and nothing at all when it has none (no line and no
\* descent)
RECURSIVE walk_dependency_kinds(_, _, _)
walk_dependency_kinds(d, k, first_id) ==
    IF k > Len(DepKinds) THEN <<>>
    ELSE LET kind    == DepKinds[k]
             members == [i \in 1..d[kind] |-> Package(first_id + i - 1, 1)]
             shown   == IF kind = "Normal" THEN members
                        ELSE IF d[kind] = 0 THEN <<>>
                        ELSE IF get_kind_group_name(kind).some
                        THEN <<ExtraDepsGroup(kind, 1)>> \o members
                        ELSE <<>>
         IN  shown \o walk_dependency_kinds(d, k + 1, first_id + d[kind])

\* The tree of root package 1: its line, then its dependencies by category
walk_dependency_tree(d) ==
    <<Package(1, 0)>> \o walk_dependency_kinds(d, 1, 2)

\* geiger_ctx.package_id_to_metrics.get(&package_id): no metrics, one entry
\* point that forbids unsafe code, or one that does not
PackageMetricsOf(id) ==
    IF id % 3 = 0 THEN NoMetrics
    ELSE [some |-> TRUE,
          rs_path_to_metrics |->
              [p \in {1} |->
                  [metrics |-> [forbids_unsafe |-> (id % 3 = 1),
                                has_unsafe |-> FALSE],
                   is_crate_entry_point |-> TRUE]]]

OutputLine(symbol, tree_vines, text, id, color) ==
    [symbol |-> symbol, tree_vines |-> tree_vines, text |-> text, id |-> id,
     color |-> color]

\* construct_key_lines: an empty line, the heading, one line per symbol,
\* an empty line
construct_key_lines ==
    <<OutputLine("", 0, "", 0, "normal"),
      OutputLine("", 0, "Symbols: ", 0, "normal"),
      OutputLine("Lock", 0,
          "All entry point .rs files declare #![forbid(unsafe_code)].",
          0, "normal"),
      OutputLine("QuestionMark", 0, "This crate may use unsafe code.",
          0, "normal"),
      OutputLine("", 0, "", 0, "normal")>>

\* A plausible slip: the test of the name inverted
extra_deps_group_line_inverted(out_lines, kind, tree_vines) ==
    LET name == get_kind_group_name(kind)
    IN  IF name.some THEN out_lines
        ELSE Append(out_lines,
                    OutputLine("", tree_vines, name.name, 0, "normal"))

\* The ExtraDepsGroup arm: nothing for a kind without a name (continue),
\* else format!("  {}{}", tree_vines, name) is pushed
extra_deps_group_line(out_lines, kind, tree_vines) ==
    LET name == get_kind_group_name(kind)
    IN  IF ~name.some THEN out_lines
        ELSE Append(out_lines,
                    OutputLine("", tree_vines, name.name, 0, "normal"))

\* The Package arm: the error of find_unsafe is returned (108-113), else
\* package_set.get_one(package_id).unwrap() panics for a package that
\* cannot be fetched (117), else
\* format!("{} {}{}", symbol, tree_vines, name) is pushed
package_line(out_lines, package_id, tree_vines, find_unsafe_ok, get_one_ok) ==
    LET l == handle_package_text_tree_line(PackageMetricsOf(package_id))
    IN  IF ~find_unsafe_ok THEN [kind |-> "Err", out_lines |-> out_lines]
        ELSE IF ~get_one_ok THEN [kind |-> "Panic", out_lines |-> out_lines]
        ELSE [kind |-> "Ok",
              out_lines |->
                  Append(out_lines,
                         OutputLine(l.symbol, tree_vines, "", package_id,
                                    l.color))]

(***************************************************************************)
(* resolve_rs_file_deps (rs_file.rs 117-220): the paths, the dependency    *)
(* files found by the walk, and the shared context of the executor.        *)
(***************************************************************************)
Workers == 1..NumWorkers
Units == 1..MaxUnits

\* The arguments of compiler invocation u: its source root (canonical by
\* construction) and its --out-dir.  Invocations share roots and directories.
RsArgOf(u) == IF u <= 2 THEN <<"/", "a">> ELSE <<"/", "m">>
OutDirOf(u) == IF u % 2 = 1 THEN "out1" ELSE "out2"

WorkspaceRoot == <<"/">>

\* Path::join: an absolute path replaces the base; else the path is added
\* to the base, after a separator when the base does not end with one
join(base, pb) ==
    IF Len(pb) > 0 /\ pb[1] = "/" THEN pb
    ELSE IF base = <<>> \/ ends_with(base, "/") THEN base \o pb
    ELSE base \o <<"/">> \o pb

\* On disk "l" is a symbolic link to "a"
resolve_link(p) == IF p = <<"/", "l">> THEN <<"/", "a">> ELSE p

\* A plausible slip: the joined path kept as it is, links unresolved
canonicalize_keeps_links(p, missing) ==
    IF p \in missing THEN [ok |-> FALSE, path |-> p]
    ELSE [ok |-> TRUE, path |-> p]

\* What is on disk: the files, the directories and the link
RegularFiles ==
    {<<"/", "a">>, <<"/", "b">>, <<"/", "m">>, <<"/", "a", " ", "b">>}
Directories == {<<"/">>, <<"/", "s", "u", "b">>}
Links == {<<"/", "l">>}

\* The components of a path: the parts between its separators
RECURSIVE components(_)
components(p) ==
    LET n == find(p, <<"/">>)
    IN  IF n = 0 THEN <<p>>
        ELSE <<SubSeq(p, 1, n - 1)>> \o components(SubSeq(p, n + 1, Len(p)))

\* The entry called name in directory dir, and the directory above dir
child(dir, name) ==
    IF ends_with(dir, "/") THEN dir \o name ELSE dir \o <<"/">> \o name

parent(dir) ==
    LET seps == {i \in 1..Len(dir) : dir[i] = "/"}
        last == CHOOSE i \in seps : \A j \in seps : j <= i
    IN  IF last = 1 THEN <<"/">> ELSE SubSeq(dir, 1, last - 1)

\* The path walked component by component from cur: every component is
\* taken in a directory; an empty one and "." stay, ".." goes up, a name
\* goes to the entry, through the link when it is one
RECURSIVE canonical_walk(_, _, _)
canonical_walk(comps, cur, missing) ==
    IF comps = <<>> THEN [ok |-> TRUE, path |-> cur]
    ELSE IF cur \notin Directories THEN [ok |-> FALSE, path |-> cur]
    ELSE LET c == Head(comps)
         IN  IF c = <<>> \/ c = <<".">>
             THEN canonical_walk(Tail(comps), cur, missing)
             ELSE IF c = <<".", ".">>
             THEN canonical_walk(Tail(comps), parent(cur), missing)
             ELSE LET next == child(cur, c)
                  IN  IF \/ next \notin RegularFiles \cup Directories \cup Links
                         \/ next \in missing
                         \/ resolve_link(next) \in missing
                      THEN [ok |-> FALSE, path |-> next]
                      ELSE canonical_walk(Tail(comps), resolve_link(next),
                                          missing)

\* Path::canonicalize: the absolute path with "." and ".." and repeated
\* separators and links resolved; an io::Error for the empty path, for a
\* missing entry, for a link to one, and for a file used as a directory.
\* A relative path starts at the current directory, the root here
canonicalize(p, missing) ==
    IF p = <<>> THEN [ok |-> FALSE, path |-> p]
    ELSE LET r == canonical_walk(components(p), <<"/">>, missing)
         IN  IF r.ok THEN r ELSE [ok |-> FALSE, path |-> p]

\* Texts of dependency-info files found under an output directory
DepText1 == <<"o", ":", " ", "a", " ", "b", "\n">>
DepText2 == <<"o", ":", " ", "a", "\\", " ", "b", " ", "l", "\n", "a", ":", "\n">>
DepText3 == <<"o", ":", " ", "a", " ", "b", "\\", "\n">>
DepText4 == <<"o", ":", " ", "a", " ", "b", "\n", "o", ":", " ", "a", "\n">>
DepTexts == {DepText1, DepText2, DepText3, DepText4}

\* What WalkDir yields for one entry: an error, or an entry that is or is not
\* a file, with an extension or none; a file's text may be unreadable
DirEntries ==
    {[walk_ok |-> FALSE, is_file |-> FALSE, ext |-> "", readable |-> FALSE,
      contents |-> <<>>],
     [walk_ok |-> TRUE, is_file |-> FALSE, ext |-> "d", readable |-> FALSE,
      contents |-> <<>>],
     [walk_ok |-> TRUE, is_file |-> TRUE, ext |-> "", readable |-> TRUE,
      contents |-> <<>>],
     [walk_ok |-> TRUE, is_file |-> TRUE, ext |-> "rs", readable |-> TRUE,
      contents |-> <<>>],
     [walk_ok |-> TRUE, is_file |-> TRUE, ext |-> "d", readable |-> FALSE,
      contents |-> <<>>]}
    \cup {[walk_ok |-> TRUE, is_file |-> TRUE, ext |-> "d", readable |-> TRUE,
           contents |-> c] : c \in DepTexts}

Walks == UNION {[1..n -> DirEntries] : n \in 0..MaxEntries}

\* Paths that may be missing when they are canonicalized
MaybeMissing == {<<"/", "a">>, <<"/", "b">>}

\* is_file_with_ext (rs_file.rs 100-113)
is_file_with_ext(entry, file_ext) ==
    IF ~entry.is_file THEN FALSE
    ELSE IF entry.ext = "" THEN FALSE
    ELSE entry.ext = file_ext

\* The t.1 of every (target, deps), flattened in order
RECURSIVE flat_deps(_)
flat_deps(ds) ==
    IF ds = <<>> THEN <<>> ELSE Head(ds)[2] \o flat_deps(Tail(ds))

Ok(set) == [kind |-> "Ok", files |-> set]
Err(err, step, path) == [kind |-> "Err", err |-> err, step |-> step, path |-> path]
Panicked(step, path) == [kind |-> "Panic", step |-> step, path |-> path]
NoPath == <<>>

\* The value resolve_rs_file_deps returns for a helper's failure r
returned(r) ==
    IF r.kind = "Err" THEN [kind |-> "Err", err |-> r.err, path |-> r.path]
    ELSE [kind |-> "Panic"]

\* for path_buf in canonical_paths { set.insert(path_buf?) }: the paths are
\* canonicalized lazily, in order, and the first failure returns Io(e, pb)
RECURSIVE insert_canonical(_, _, _)
insert_canonical(deps, set, missing) ==
    IF deps = <<>> THEN Ok(set)
    ELSE LET pb == join(WorkspaceRoot, Head(deps))
             c  == canonicalize(pb, missing)
         IN  IF ~c.ok THEN Err("Io", "canonicalize", pb)
             ELSE insert_canonical(Tail(deps), set \cup {c.path}, missing)

\* parse_rustc_dep_info of the texts above, computed once
ParsedDepTexts == [c \in DepTexts |-> parse_rustc_dep_info(c)]

\* What the parse of one dependency-info file comes to: paths::read fails
\* (an Err, mapped to DepParse with the file's path), or the parse runs
dep_file_result(entry, path, set, missing) ==
    IF ~entry.readable THEN Err("DepParse", "parse", path)
    ELSE LET p == IF entry.contents \in DepTexts
                  THEN ParsedDepTexts[entry.contents]
                  ELSE parse_rustc_dep_info(entry.contents)
         IN  IF p.kind = "Panic" THEN Panicked("parse", path)
             ELSE insert_canonical(flat_deps(p.deps), set, missing)

\* add_dir_entries_to_path_buf_hash_set (rs_file.rs 176-201), from entry i
RECURSIVE add_dir_entries_to_path_buf_hash_set(_, _, _, _, _)
add_dir_entries_to_path_buf_hash_set(out_dir, entries, i, set, missing) ==
    IF i > Len(entries) THEN Ok(set)
    ELSE IF ~entries[i].walk_ok THEN Err("Walkdir", "walk", <<out_dir, i>>)
    ELSE IF ~is_file_with_ext(entries[i], "d")
         THEN add_dir_entries_to_path_buf_hash_set(out_dir, entries, i + 1, set,
                                                   missing)
    ELSE LET r == dep_file_result(entries[i], <<out_dir, i>>, set, missing)
         IN  IF r.kind = "Ok"
             THEN add_dir_entries_to_path_buf_hash_set(out_dir, entries, i + 1,
                                                       r.files, missing)
             ELSE r

\* What the dependency-info files of a walk list, read off the texts: the
\* files named on their dependency lines, as the paths they are on disk
\* ("l" is the link to "a").  The parse of DepText3 panics: it lists nothing
PathsListedIn(text) ==
    CASE text = DepText1 -> {<<"/", "a">>, <<"/", "b">>}
      [] text = DepText2 -> {<<"/", "a", " ", "b">>, <<"/", "a">>}
      [] text = DepText3 -> {}
      [] text = DepText4 -> {<<"/", "a">>, <<"/", "b">>}

NamesListedIn(text) ==
    CASE text = DepText1 -> 2
      [] text = DepText2 -> 2
      [] text = DepText3 -> 0
      [] text = DepText4 -> 3

IsDepFile(entry) == entry.walk_ok /\ entry.is_file /\ entry.ext = "d"

ListedPaths(entries) ==
    UNION {PathsListedIn(entries[i].contents) :
              i \in {j \in DOMAIN entries : IsDepFile(entries[j])}}

RECURSIVE ListedCount(_, _)
ListedCount(entries, i) ==
    IF i > Len(entries) THEN 0
    ELSE (IF IsDepFile(entries[i]) THEN NamesListedIn(entries[i].contents)
          ELSE 0) + ListedCount(entries, i + 1)

\* CustomExecutorInnerContext::default()
DefaultCtx == [rs_file_args |-> {}, out_dir_args |-> {}]

\* A plausible slip: the output directories dropped at the drain
drain_without_out_dirs(c) == <<c.rs_file_args, {}>>

\* let ctx = inner_mutex.into_inner()?; (ctx.rs_file_args, ctx.out_dir_args)
drain(c) == <<c.rs_file_args, c.out_dir_args>>

\* A worker runs Executor::exec of the CustomExecutor it holds a clone of
Active(w) == wpc[w] \in {"lock", "read", "write", "unlock", "exec"}

\* A plausible slip: the executor's Arc kept alive after the build returned
executor_refs_never_dropped ==
    1 + Cardinality({w \in Workers : Active(w)})

\* The owners of the Arc<dyn Executor>: compile_with_exec's own while the
\* build runs (rs_file.rs 209-217) and a clone for every running job
executor_refs ==
    (IF rpc = "building" THEN 1 ELSE 0)
        + Cardinality({w \in Workers : Active(w)})

\* The strong count of inner_arc: resolve_rs_file_deps' own (rs_file.rs 139)
\* and the clone the executor owns (144) for as long as the executor lives
inner_strong_count == 1 + (IF executor_refs > 0 THEN 1 ELSE 0)

\* A plausible slip: the context unwrapped whoever else holds it
try_unwrap_unchecked == TRUE

\* Arc::try_unwrap(inner_arc) is Ok exactly for a sole owner
try_unwrap_ok == inner_strong_count = 1

\* A plausible slip: the executor registered before the clean has run
executor_registered_early == rpc \in {"clean", "building"}

\* The build that calls the executor runs after the clean (rs_file.rs 136-147)
executor_registered == rpc = "building"

(***************************************************************************)
(* The variables of the specifications that are not running.               *)
(***************************************************************************)
ParseIdle ==
    /\ dep_names = <<>>
    /\ with_phony = FALSE
    /\ dep_info = <<>>
    /\ parsed = NoResult
    /\ ppc = "idle"

ScanIdle ==
    /\ pkg_targets = <<>>
    /\ rs_files = <<>>
    /\ pkg_metrics = NoMetrics
    /\ tree_line = NoLine
    /\ spc = "idle"

TableIdle ==
    /\ root_deps = [kind \in KindSet |-> 0]
    /\ tree_lines = <<>>
    /\ next_line = 0
    /\ scan_output_lines = <<>>
    /\ printed = <<>>
    /\ torn = FALSE
    /\ table_result = "None"
    /\ tpc = "idle"

NoFailure == [step |-> "none", path |-> NoPath]

ResolveStart ==
    /\ result = NoResult
    /\ ctx = DefaultCtx
    /\ mutex = [holder |-> 0, poisoned |-> FALSE]
    /\ pending = units
    /\ wpc = [w \in Workers |-> "idle"]
    /\ job = [w \in Workers |-> 0]
    /\ guard = [w \in Workers |-> DefaultCtx]
    /\ build_failed = FALSE
    /\ drained = <<{}, {}>>
    /\ to_walk = {}
    /\ path_buf_hash_set = {}
    /\ ran = {}
    /\ drains = 0
    /\ build_returned = FALSE
    /\ failed = NoFailure
    /\ listed = {}
    /\ listed_count = 0

ResolveIdle == rpc = "idle" /\ units = {} /\ ResolveStart

(***************************************************************************)
(* SpecScan: a package's files are classified, its entry points scanned    *)
(* and its line of the forbid-only table computed.                         *)
(***************************************************************************)
ScanInit ==
    /\ pkg_targets \in UNION {[1..n -> TargetFiles] : n \in 0..MaxFiles}
    /\ rs_files = <<>>
    /\ pkg_metrics = NoMetrics
    /\ tree_line = NoLine
    /\ spc = "targets"
    /\ ParseIdle
    /\ ResolveIdle
    /\ TableIdle

\* Every target's source path is classified by the target's kind
Classify ==
    /\ spc = "targets"
    /\ rs_files' = [p \in DOMAIN pkg_targets |->
                       into_rs_code_file(pkg_targets[p].kind, p)]
    /\ spc' = "classified"
    /\ UNCHANGED <<pkg_targets, pkg_metrics, tree_line>>
    /\ UNCHANGED <<parseVars, resolveVars, tableVars>>

FindUnsafe ==
    /\ spc = "classified"
    /\ \E entry_first \in BOOLEAN :
           pkg_metrics' = find_unsafe(pkg_targets, rs_files, entry_first)
    /\ spc' = "scanned"
    /\ UNCHANGED <<pkg_targets, rs_files, tree_line>>
    /\ UNCHANGED <<parseVars, resolveVars, tableVars>>

HandlePackageTextTreeLine ==
    /\ spc = "scanned"
    /\ tree_line' = handle_package_text_tree_line(pkg_metrics)
    /\ spc' = "printed"
    /\ UNCHANGED <<pkg_targets, rs_files, pkg_metrics>>
    /\ UNCHANGED <<parseVars, resolveVars, tableVars>>

ScanNext == Classify \/ FindUnsafe \/ HandlePackageTextTreeLine

SpecScan == ScanInit /\ [][ScanNext]_vars

(***************************************************************************)
(* SpecParse: the compiler writes a dependency-info file for a list of     *)
(* file names and parse_rustc_dep_info reads it back.                      *)
(***************************************************************************)
ParseInit ==
    /\ dep_names \in NameLists
    /\ with_phony \in BOOLEAN
    /\ dep_info = <<>>
    /\ parsed = NoResult
    /\ ppc = "start"
    /\ ScanIdle
    /\ ResolveIdle
    /\ TableIdle

WriteDepInfo ==
    /\ ppc = "start"
    /\ dep_info' = write_dep_info(dep_names, with_phony)
    /\ ppc' = "written"
    /\ UNCHANGED <<dep_names, with_phony, parsed>>
    /\ UNCHANGED <<scanVars, resolveVars, tableVars>>

ParseDepInfo ==
    /\ ppc = "written"
    /\ parsed' = parse_rustc_dep_info(dep_info)
    /\ ppc' = "parsed"
    /\ UNCHANGED <<dep_names, with_phony, dep_info>>
    /\ UNCHANGED <<scanVars, resolveVars, tableVars>>

ParseNext == WriteDepInfo \/ ParseDepInfo

SpecParse == ParseInit /\ [][ParseNext]_vars

(***************************************************************************)
(* SpecResolve: one call of resolve_rs_file_deps, with the build's worker  *)
(* threads calling the executor.                                           *)
(***************************************************************************)
\* A build of a workspace has any number of compiler invocations, none for
\* an empty workspace
ResolveInit ==
    /\ rpc = "clean"
    /\ units \in {1..n : n \in 0..MaxUnits}
    /\ ResolveStart
    /\ ParseIdle
    /\ ScanIdle
    /\ TableIdle

Fail(err, step) ==
    /\ rpc' = "done"
    /\ result' = [kind |-> "Err", err |-> err, path |-> NoPath]
    /\ failed' = [step |-> step, path |-> NoPath]

\* ops::clean(workspace, &clean_options).map_err(Cargo)?
Clean ==
    /\ rpc = "clean"
    /\ \E ok \in BOOLEAN :
           IF ok THEN rpc' = "compile" /\ UNCHANGED <<result, failed>>
           ELSE Fail("Cargo", "clean")
    /\ UNCHANGED <<drained, to_walk, path_buf_hash_set, drains, build_returned>>
    /\ UNCHANGED <<workerVars, parseVars, scanVars, buildVars, tableVars>>

\* inner_arc = Arc::new(Mutex::new(default)); compile_with_exec(.., clone, ..)
StartBuild ==
    /\ rpc = "compile"
    /\ rpc' = "building"
    /\ ctx' = DefaultCtx
    /\ mutex' = [holder |-> 0, poisoned |-> FALSE]
    /\ UNCHANGED <<pending, wpc, job, guard, build_failed, ran>>
    /\ UNCHANGED <<result, drained, to_walk, path_buf_hash_set, drains,
                   build_returned, failed>>
    /\ UNCHANGED <<parseVars, scanVars, buildVars, tableVars>>

\* The build hands invocation u to worker w, which calls Executor::exec
Take(w, u) ==
    /\ executor_registered
    /\ wpc[w] = "idle"
    /\ u \in pending
    /\ pending' = pending \ {u}
    /\ job' = [job EXCEPT ![w] = u]
    /\ wpc' = [wpc EXCEPT ![w] = "lock"]
    /\ UNCHANGED <<ctx, mutex, guard, build_failed, ran>>
    /\ UNCHANGED <<callVars, parseVars, scanVars, buildVars, tableVars>>

\* self.inner_ctx.lock(): waits for the holder; a poisoned lock is an error
\* of the invocation
Lock(w) ==
    /\ wpc[w] = "lock"
    /\ mutex.holder = 0
    /\ IF mutex.poisoned
       THEN /\ wpc' = [wpc EXCEPT ![w] = "idle"]
            /\ job' = [job EXCEPT ![w] = 0]
            /\ build_failed' = TRUE
            /\ UNCHANGED mutex
       ELSE /\ mutex' = [mutex EXCEPT !.holder = w]
            /\ wpc' = [wpc EXCEPT ![w] = "read"]
            /\ UNCHANGED <<job, build_failed>>
    /\ UNCHANGED <<ctx, pending, guard, ran>>
    /\ UNCHANGED <<callVars, parseVars, scanVars, buildVars, tableVars>>

\* The context is read through the guard ...
Read(w) ==
    /\ wpc[w] = "read"
    /\ guard' = [guard EXCEPT ![w] = ctx]
    /\ wpc' = [wpc EXCEPT ![w] = "write"]
    /\ UNCHANGED <<ctx, mutex, pending, job, build_failed, ran>>
    /\ UNCHANGED <<callVars, parseVars, scanVars, buildVars, tableVars>>

\* ... and written back with the invocation's .rs arguments and --out-dir
Write(w) ==
    /\ wpc[w] = "write"
    /\ ctx' = [rs_file_args |-> guard[w].rs_file_args \cup {RsArgOf(job[w])},
               out_dir_args |-> guard[w].out_dir_args \cup {OutDirOf(job[w])}]
    /\ ran' = ran \cup {job[w]}
    /\ wpc' = [wpc EXCEPT ![w] = "unlock"]
    /\ UNCHANGED <<mutex, pending, job, guard, build_failed>>
    /\ UNCHANGED <<callVars, parseVars, scanVars, buildVars, tableVars>>

\* The thread panics holding the lock: the lock is poisoned and released as
\* the guard unwinds.
\* The build may or may not report the lost job as a failure.
PanicInLock(w) ==
    /\ wpc[w] \in {"read", "write"}
    /\ mutex' = [holder |-> 0, poisoned |-> TRUE]
    /\ wpc' = [wpc EXCEPT ![w] = "dead"]
    /\ \E reported \in BOOLEAN : build_failed' = (build_failed \/ reported)
    /\ job' = [job EXCEPT ![w] = 0]
    /\ guard' = [guard EXCEPT ![w] = DefaultCtx]
    /\ UNCHANGED <<ctx, pending, ran>>
    /\ UNCHANGED <<callVars, parseVars, scanVars, buildVars, tableVars>>

\* The guard goes out of scope before the compiler runs, and what was read
\* through it with it
Unlock(w) ==
    /\ wpc[w] = "unlock"
    /\ mutex' = [mutex EXCEPT !.holder = 0]
    /\ wpc' = [wpc EXCEPT ![w] = "exec"]
    /\ guard' = [guard EXCEPT ![w] = DefaultCtx]
    /\ UNCHANGED <<ctx, pending, job, build_failed, ran>>
    /\ UNCHANGED <<callVars, parseVars, scanVars, buildVars, tableVars>>

\* cmd.exec(): the compiler runs and succeeds or fails
Exec(w) ==
    /\ wpc[w] = "exec"
    /\ \E ok \in BOOLEAN : build_failed' = (build_failed \/ ~ok)
    /\ wpc' = [wpc EXCEPT ![w] = "idle"]
    /\ job' = [job EXCEPT ![w] = 0]
    /\ UNCHANGED <<ctx, mutex, pending, guard, ran>>
    /\ UNCHANGED <<callVars, parseVars, scanVars, buildVars, tableVars>>

\* ops::compile_with_exec returns: Ok once every invocation has been handed
\* out and none has failed, or an error, at any moment and for any reason,
\* a failed invocation or not; custom_executor_arc is dropped
BuildReturn ==
    /\ rpc = "building"
    /\ build_returned' = TRUE
    /\ \E ok \in BOOLEAN :
           /\ ok => (~build_failed /\ pending = {})
           /\ IF ok THEN rpc' = "reclaim" /\ UNCHANGED <<result, failed>>
              ELSE Fail("Cargo", "build")
    /\ UNCHANGED <<drained, to_walk, path_buf_hash_set, drains>>
    /\ UNCHANGED <<workerVars, parseVars, scanVars, buildVars, tableVars>>

\* Arc::try_unwrap(inner_arc).map_err(|_| ArcUnwrap())?
Reclaim ==
    /\ rpc = "reclaim"
    /\ IF try_unwrap_ok
       THEN rpc' = "into_inner" /\ UNCHANGED <<result, failed>>
       ELSE Fail("ArcUnwrap", "reclaim")
    /\ UNCHANGED <<drained, to_walk, path_buf_hash_set, drains, build_returned>>
    /\ UNCHANGED <<workerVars, parseVars, scanVars, buildVars, tableVars>>

\* inner_mutex.into_inner()?: a poisoned lock is InnerContextMutex; else the
\* recorded arguments are taken out
IntoInner ==
    /\ rpc = "into_inner"
    /\ IF mutex.poisoned
       THEN /\ Fail("InnerContextMutex", "mutex")
            /\ UNCHANGED <<drained, to_walk, drains>>
       ELSE /\ drained' = drain(ctx)
            /\ to_walk' = drain(ctx)[2]
            /\ drains' = drains + 1
            /\ rpc' = "walk"
            /\ UNCHANGED <<result, failed>>
    /\ UNCHANGED <<path_buf_hash_set, build_returned>>
    /\ UNCHANGED <<workerVars, parseVars, scanVars, buildVars, tableVars>>

\* for out_dir in out_dir_args { add_dir_entries_to_path_buf_hash_set(..)? }
WalkOutDir ==
    /\ rpc = "walk"
    /\ \E out_dir \in to_walk, entries \in Walks, missing \in SUBSET MaybeMissing :
           LET r == add_dir_entries_to_path_buf_hash_set(
                        out_dir, entries, 1, path_buf_hash_set, missing)
           IN  IF r.kind = "Ok"
               THEN /\ path_buf_hash_set' = r.files
                    /\ to_walk' = to_walk \ {out_dir}
                    /\ listed' = listed \cup ListedPaths(entries)
                    /\ listed_count' = listed_count + ListedCount(entries, 1)
                    /\ UNCHANGED <<rpc, result, failed>>
               ELSE /\ rpc' = "done"
                    /\ result' = returned(r)
                    /\ failed' = [step |-> r.step, path |-> r.path]
                    /\ UNCHANGED <<path_buf_hash_set, to_walk, listed,
                                   listed_count>>
    /\ UNCHANGED <<drained, drains, build_returned, units>>
    /\ UNCHANGED <<workerVars, parseVars, scanVars, tableVars>>

\* for path_buf in rs_files { insert }; Ok(path_buf_hash_set)
Finish ==
    /\ rpc = "walk"
    /\ to_walk = {}
    /\ path_buf_hash_set' = path_buf_hash_set \cup drained[1]
    /\ result' = Ok(path_buf_hash_set \cup drained[1])
    /\ rpc' = "done"
    /\ UNCHANGED <<drained, to_walk, drains, build_returned, failed>>
    /\ UNCHANGED <<workerVars, parseVars, scanVars, buildVars, tableVars>>

ResolveNext ==
    \/ Clean
    \/ StartBuild
    \/ \E w \in Workers, u \in Units : Take(w, u)
    \/ \E w \in Workers : Lock(w)
    \/ \E w \in Workers : Read(w)
    \/ \E w \in Workers : Write(w)
    \/ \E w \in Workers : PanicInLock(w)
    \/ \E w \in Workers : Unlock(w)
    \/ \E w \in Workers : Exec(w)
    \/ BuildReturn
    \/ Reclaim
    \/ IntoInner
    \/ WalkOutDir
    \/ Finish

SpecResolve == ResolveInit /\ [][ResolveNext]_vars

(***************************************************************************)
(* SpecTable: scan_forbid_to_table prints the forbid-only table of a root  *)
(* package and its dependencies.                                           *)
(***************************************************************************)
TableInit ==
    /\ root_deps \in [KindSet -> 0..MaxMembers]
    /\ tree_lines = <<>>
    /\ next_line = 0
    /\ scan_output_lines = <<>>
    /\ printed = <<>>
    /\ torn = FALSE
    /\ table_result = "None"
    /\ tpc = "start"
    /\ ParseIdle
    /\ ScanIdle
    /\ ResolveIdle

\* scan_output_lines.append(&mut construct_key_lines(&emoji_symbols))
ConstructKeyLines ==
    /\ tpc = "start"
    /\ scan_output_lines' = scan_output_lines \o construct_key_lines
    /\ tpc' = "walk"
    /\ UNCHANGED <<root_deps, tree_lines, next_line, printed, torn, table_result>>
    /\ UNCHANGED <<parseVars, scanVars, resolveVars>>

\* let tree_lines = walk_dependency_tree(root_package_id, &graph, ..)
WalkDependencyTree ==
    /\ tpc = "walk"
    /\ tree_lines' = walk_dependency_tree(root_deps)
    /\ next_line' = 1
    /\ tpc' = "loop"
    /\ UNCHANGED <<root_deps, scan_output_lines, printed, torn, table_result>>
    /\ UNCHANGED <<parseVars, scanVars, resolveVars>>

\* One turn of the loop over tree_lines, at a group line
ExtraDepsGroupLine ==
    /\ tpc = "loop"
    /\ next_line <= Len(tree_lines)
    /\ tree_lines[next_line].type = "ExtraDepsGroup"
    /\ scan_output_lines' =
           extra_deps_group_line(scan_output_lines, tree_lines[next_line].kind,
                                 tree_lines[next_line].tree_vines)
    /\ next_line' = next_line + 1
    /\ UNCHANGED <<root_deps, tree_lines, printed, torn, table_result, tpc>>
    /\ UNCHANGED <<parseVars, scanVars, resolveVars>>

\* One turn of the loop, at a package line: handle_package_text_tree_line(..)?
\* returns the error of find_unsafe, panics when the package cannot be
\* fetched, or pushes the line of the package
PackageLine ==
    /\ tpc = "loop"
    /\ next_line <= Len(tree_lines)
    /\ tree_lines[next_line].type = "Package"
    /\ \E find_unsafe_ok \in BOOLEAN, get_one_ok \in BOOLEAN :
           LET r == package_line(scan_output_lines, tree_lines[next_line].id,
                                 tree_lines[next_line].tree_vines,
                                 find_unsafe_ok, get_one_ok)
           IN  IF r.kind = "Ok"
               THEN /\ scan_output_lines' = r.out_lines
                    /\ next_line' = next_line + 1
                    /\ UNCHANGED <<table_result, tpc>>
               ELSE /\ table_result' = r.kind
                    /\ tpc' = "done"
                    /\ UNCHANGED <<scan_output_lines, next_line>>
    /\ UNCHANGED <<root_deps, tree_lines, printed, torn>>
    /\ UNCHANGED <<parseVars, scanVars, resolveVars>>

\* One turn of for scan_output_line in scan_output_lines { println! }:
\* the line is written, or println! panics on a failed write, with nothing
\* or a part of the line written
PrintLines ==
    /\ tpc = "loop"
    /\ next_line > Len(tree_lines)
    /\ Len(printed) < Len(scan_output_lines)
    /\ \E write_ok \in BOOLEAN, part \in BOOLEAN :
           IF write_ok
           THEN /\ ~part
                /\ printed' =
                       Append(printed, scan_output_lines[Len(printed) + 1])
                /\ UNCHANGED <<torn, table_result, tpc>>
           ELSE /\ torn' = part
                /\ table_result' = "Panic"
                /\ tpc' = "done"
                /\ UNCHANGED printed
    /\ UNCHANGED <<root_deps, tree_lines, next_line, scan_output_lines>>
    /\ UNCHANGED <<parseVars, scanVars, resolveVars>>

\* Ok(()) after the last line
ReturnOk ==
    /\ tpc = "loop"
    /\ next_line > Len(tree_lines)
    /\ Len(printed) = Len(scan_output_lines)
    /\ table_result' = "Ok"
    /\ tpc' = "done"
    /\ UNCHANGED <<root_deps, tree_lines, next_line, scan_output_lines,
                   printed, torn>>
    /\ UNCHANGED <<parseVars, scanVars, resolveVars>>

TableNext ==
    \/ ConstructKeyLines
    \/ WalkDependencyTree
    \/ ExtraDepsGroupLine
    \/ PackageLine
    \/ PrintLines
    \/ ReturnOk

SpecTable == TableInit /\ [][TableNext]_vars

(***************************************************************************)
(* The verdict of a package (C1-C3) and the classifier (C4), under         *)
(* SpecScan.                                                               *)
(***************************************************************************)
\* The package's entry-point files that have metrics, and what they report
EntryPointKinds == {"Lib", "Bin", "CustomBuild"}

EntryPointsWithMetrics ==
    {p \in DOMAIN pkg_targets :
        pkg_targets[p].kind \in EntryPointKinds /\ pkg_targets[p].scan_ok}

EveryEntryPointForbids ==
    \A p \in EntryPointsWithMetrics : pkg_targets[p].forbids_unsafe

SomeFileHasUnsafe == \E p \in DOMAIN pkg_targets : pkg_targets[p].has_unsafe

\* C1: for a package with metrics, the line shows ForbidsUnsafeEverywhere (the
\* lock) exactly when every entry-point file's metrics report the forbid
\* directive, whatever the unsafe counts of any file of the package.
C1_LockIffAllEntryPointsForbid ==
    (spc = "printed" /\ pkg_metrics.some) =>
        /\ EveryEntryPointForbids =>
               /\ verdict_of_line(tree_line) = "ForbidsUnsafeEverywhere"
               /\ tree_line.symbol = "Lock"
        /\ ~EveryEntryPointForbids =>
               verdict_of_line(tree_line) # "ForbidsUnsafeEverywhere"

\* The lock on a package whose forbidding entry point has unsafe counts and
\* whose test file does not forbid
C1_Witness ==
    /\ spc = "printed"
    /\ pkg_metrics.some
    /\ EntryPointsWithMetrics # {}
    /\ \E p \in EntryPointsWithMetrics : pkg_targets[p].has_unsafe
    /\ \E p \in DOMAIN pkg_targets :
           pkg_targets[p].kind = "Test" /\ ~pkg_targets[p].forbids_unsafe
    /\ tree_line.symbol = "Lock"

\* C2: a package with no entry-point file resolved (no metrics entry, or an
\* entry whose file map is empty) shows NoneDetectedButNotForbidden.
C2_NoEntryPointsNotForbidden ==
    (spc = "printed"
        /\ (~pkg_metrics.some \/ DOMAIN pkg_metrics.rs_path_to_metrics = {})) =>
        verdict_of_line(tree_line) = "NoneDetectedButNotForbidden"

\* C3 as stated: unsafe counts in some file and an entry point whose metrics
\* do not report the directive give the verdict UnsafeDetected.
C3_UnsafeDetected ==
    (spc = "printed" /\ SomeFileHasUnsafe /\ ~EveryEntryPointForbids) =>
        verdict_of_line(tree_line) = "UnsafeDetected"

\* C4: every kind maps to exactly one tag and the path is kept: Lib ->
\* LibRoot, Bin -> BinRoot, CustomBuild -> CustomBuildRoot, the rest -> Other.
C4_ClassifierTotal ==
    spc \in {"classified", "scanned", "printed"} =>
        /\ DOMAIN rs_files = DOMAIN pkg_targets
        /\ \A p \in DOMAIN pkg_targets :
               /\ rs_files[p].path = p
               /\ rs_files[p].tag \in {"LibRoot", "BinRoot", "CustomBuildRoot", "Other"}
               /\ rs_files[p].tag = "LibRoot" <=> pkg_targets[p].kind = "Lib"
               /\ rs_files[p].tag = "BinRoot" <=> pkg_targets[p].kind = "Bin"
               /\ rs_files[p].tag = "CustomBuildRoot"
                      <=> pkg_targets[p].kind = "CustomBuild"
               /\ rs_files[p].tag = "Other"
                      <=> pkg_targets[p].kind \in
                              {"Test", "Bench", "ExampleLib", "ExampleBin"}

\* A bench file and a build script classified side by side
C4_Witness ==
    /\ spc = "classified"
    /\ \E p, q \in DOMAIN pkg_targets :
           /\ pkg_targets[p].kind = "Bench" /\ rs_files[p] = [tag |-> "Other", path |-> p]
           /\ pkg_targets[q].kind = "CustomBuild"
           /\ rs_files[q] = [tag |-> "CustomBuildRoot", path |-> q]

(***************************************************************************)
(* The interceptor's context and the steps of resolve_rs_file_deps         *)
(* (C5-C9), under SpecResolve.                                             *)
(***************************************************************************)
\* The invocations the build has handed to the executor
Started == units \ pending

SomeWorkerActive == \E w \in Workers : Active(w)

\* C5: whatever the interleaving of the workers, the context holds exactly the
\* source roots and output directories of the invocations that recorded, and
\* what is drained after the build is exactly what the build's invocations
\* passed: nothing lost, nothing twice.
C5_DrainedExactlyWhatRan ==
    /\ ctx.rs_file_args = {RsArgOf(u) : u \in ran}
    /\ ctx.out_dir_args = {OutDirOf(u) : u \in ran}
    /\ drains >= 1 =>
           /\ ran = Started
           /\ drained[1] = {RsArgOf(u) : u \in Started}
           /\ drained[2] = {OutDirOf(u) : u \in Started}

\* Three invocations ran on two workers, sharing a root and a directory
C5_Witness ==
    /\ drains = 1
    /\ ran = Units
    /\ Cardinality(ran) > Cardinality(drained[1])
    /\ Cardinality(ran) > Cardinality(drained[2])
    /\ Cardinality(drained[2]) >= 2

\* C6: the reclaim succeeds only for the sole owner: with another reference
\* alive (a job still holding the executor) the call returns ArcUnwrap, and
\* then the recorded state is never read and no file set is returned.
C6_ReclaimNeedsSoleOwner ==
    /\ [][(rpc = "reclaim" /\ rpc' # "reclaim") =>
              IF SomeWorkerActive
              THEN /\ rpc' = "done"
                   /\ result' = [kind |-> "Err", err |-> "ArcUnwrap",
                                 path |-> NoPath]
                   /\ drains' = drains /\ drained' = drained
              ELSE rpc' = "into_inner"]_vars
    /\ []((result.kind = "Err" /\ result.err = "ArcUnwrap") =>
              (rpc = "done" /\ drains = 0 /\ path_buf_hash_set = {}))
    /\ [](drains > 0 => ~SomeWorkerActive)

\* The build returned with a job still running, and the reclaim failed
C6_Witness ==
    /\ result.kind = "Err"
    /\ result.err = "ArcUnwrap"
    /\ SomeWorkerActive
    /\ ctx # DefaultCtx

StepOrder ==
    {<<"clean", "compile">>, <<"clean", "done">>, <<"compile", "building">>,
     <<"building", "reclaim">>, <<"building", "done">>,
     <<"reclaim", "into_inner">>, <<"reclaim", "done">>,
     <<"into_inner", "walk">>, <<"into_inner", "done">>, <<"walk", "done">>}

\* C7: clean, then the build with the executor, then the drain, then the
\* walk: no invocation is intercepted before the clean is over, the context
\* is read only after the build has returned, and it is drained at most once.
C7_StepsInOrder ==
    /\ [][rpc' # rpc => <<rpc, rpc'>> \in StepOrder]_vars
    /\ [](rpc = "clean" =>
              (pending = units /\ ran = {} /\ ctx = DefaultCtx
                  /\ \A w \in Workers : wpc[w] = "idle"))
    /\ [][drains' # drains =>
              (build_returned /\ rpc = "into_inner" /\ drains = 0)]_vars
    /\ [](drains <= 1)
    /\ []((rpc = "walk" \/ path_buf_hash_set # {}) =>
              (drains = 1 /\ build_returned))

\* A call that went through every step and walked a dependency file
C7_Witness ==
    /\ rpc = "done"
    /\ result.kind = "Ok"
    /\ drains = 1
    /\ <<"/", "b">> \in result.files
    /\ <<"/", "m">> \in result.files

ErrOfStep(step) ==
    CASE step = "clean"        -> "Cargo"
      [] step = "build"        -> "Cargo"
      [] step = "reclaim"      -> "ArcUnwrap"
      [] step = "mutex"        -> "InnerContextMutex"
      [] step = "walk"         -> "Walkdir"
      [] step = "parse"        -> "DepParse"
      [] step = "canonicalize" -> "Io"

\* C8: a failure of any step ends the call at that step with Err of the
\* step's error kind, and Ok is returned only when no step failed and every
\* output directory was walked.
C8_ErrOrCompleteSet ==
    /\ failed.step # "none" =>
           /\ rpc = "done"
           /\ result.kind = "Err"
           /\ result.err = ErrOfStep(failed.step)
    /\ result.kind = "Ok" => (failed.step = "none" /\ to_walk = {})
    /\ rpc = "done" => result.kind \in {"Ok", "Err"}

\* C9: a dependency-info file that fails to parse, a trailing backslash
\* included, is reported as DepParse with that file's path.
C9_ParseFailureIsDepParse ==
    failed.step = "parse" =>
        result = [kind |-> "Err", err |-> "DepParse", path |-> failed.path]


(***************************************************************************)
(* The parse of a dependency line (C10), under SpecParse.                  *)
(***************************************************************************)
\* C10: a dependency line written from file names with embedded spaces parses
\* back to exactly those names, each one token with its spaces restored, in
\* order, under the line's target; lines without ": " contribute nothing.
C10_RoundTrip ==
    ppc = "parsed" =>
        /\ parsed.kind = "Ok"
        /\ parsed.deps = <<<<DepTarget, dep_names>>>>

\* A chained continuation (a name with two spaces) next to another name
C10_Witness ==
    /\ ppc = "parsed"
    /\ parsed.kind = "Ok"
    /\ Len(dep_names) = 2
    /\ \E i \in 1..2 : \E j, k \in 1..Len(dep_names[i]) :
           j # k /\ dep_names[i][j] = Space /\ dep_names[i][k] = Space
    /\ \E i \in 1..2 : \A j \in 1..Len(dep_names[i]) : dep_names[i][j] # Space
    /\ parsed.deps[1][2] = dep_names

(***************************************************************************)
(* The returned file set                                                   *)
(***************************************************************************)

\* The source roots the interceptor recorded, as drained from its context
SourceRoots == drained[1]

\* C11: on success the returned set is exactly the canonical paths listed by
\* the dependency-info files found under the recorded output directories,
\* together with the source roots the interceptor recorded; being a set, it
\* holds a path listed on several lines once.
C11_FilesAreListedPlusRoots ==
    (rpc = "done" /\ result.kind = "Ok") =>
        /\ result.files = listed \cup SourceRoots
        /\ Cardinality(result.files) = Cardinality(listed \cup SourceRoots)
        /\ Cardinality(result.files) <= listed_count + Cardinality(SourceRoots)

\* A successful call whose dependency-info files list some path more than
\* once, one of them a source root as well, one a name with a space in it
C11_Witness ==
    /\ rpc = "done"
    /\ result.kind = "Ok"
    /\ listed_count > Cardinality(listed)
    /\ listed \cap SourceRoots # {}
    /\ <<"/", "a", " ", "b">> \in result.files
    /\ Cardinality(result.files) < listed_count + Cardinality(SourceRoots)

\* C13 as stated: when the interceptor has recorded no invocation, the call
\* returns Ok with an empty file set.
C13_ZeroInvocationsOk ==
    (units = {} /\ build_returned /\ rpc = "done") => result = Ok({})

\* C13, amended: when the build has returned Ok and the interceptor was
\* never invoked, no step fails and the call returns Ok with an empty file
\* set; when the build has returned an error, the call returns Err(Cargo).
C13_NoInvocationsEmptyOk ==
    /\ (units = {} /\ build_returned /\ failed.step # "build") =>
           failed = NoFailure
    /\ (units = {} /\ failed.step = "build") =>
           result = [kind |-> "Err", err |-> "Cargo", path |-> NoPath]
    /\ (drains = 1 /\ drained = <<{}, {}>> /\ rpc = "done") =>
           result = Ok({})

\* The call has returned from a build without invocations
C13_Witness ==
    /\ units = {}
    /\ drains = 1
    /\ drained = <<{}, {}>>
    /\ rpc = "done"
    /\ result = Ok({})

(***************************************************************************)
(* The dependency groups of the forbid-only table, under SpecTable.        *)
(***************************************************************************)
\* The lines printed after the key
Body == SubSeq(printed, Len(construct_key_lines) + 1, Len(printed))

Labeled(k) == get_kind_group_name(DepKinds[k]).some

\* The categories of the root package that have members
Categories == {k \in DOMAIN DepKinds : root_deps[DepKinds[k]] > 0}

\* How many packages the categories ahead of the k-th hold
RECURSIVE MembersBefore(_)
MembersBefore(k) ==
    IF k = 1 THEN 0 ELSE root_deps[DepKinds[k - 1]] + MembersBefore(k - 1)

\* The members of the k-th category; the root package is 1
MemberIds(k) == {1 + MembersBefore(k) + i : i \in 1..root_deps[DepKinds[k]]}

IsHeader(l) == l.id = 0

IsHeaderOf(l, k) == IsHeader(l) /\ l.text = get_kind_group_name(DepKinds[k]).name

\* The header of the k-th category is printed right ahead of its members
HeaderThenMembers(k) ==
    \E i \in DOMAIN Body :
        /\ IsHeaderOf(Body[i], k)
        /\ i + root_deps[DepKinds[k]] <= Len(Body)
        /\ \A j \in 1..root_deps[DepKinds[k]] :
               Body[i + j].id = 1 + MembersBefore(k) + j

TablePrinted == tpc = "done" /\ table_result = "Ok"

\* The categories other than the normal one: those a group line announces
ExtraCategories == {k \in Categories : DepKinds[k] # "Normal"}

====
